---- MODULE Spec2Model ----
(***************************************************************************)
(* Request normalisation, schema validation, dispatch and response         *)
(* reshaping of the Catalyst NGD wrappers, for the three pipelines of the  *)
(* repository:                                                             *)
(*   - lambda_app.py    (AWS Lambda, on top of utils.py)                   *)
(*   - function_app.py  (Azure Functions, on top of utils.handle_error)    *)
(*   - Azure/function_app.py (Azure Functions, self-contained)             *)
(*                                                                         *)
(* lambda_app.py imports FeaturesBaseSchema and Azure/function_app.py      *)
(* imports BaseSchema, names schemas.py does not define; both are taken    *)
(* to be CatalystBaseSchema, the base schema function_app.py binds to the  *)
(* same route.                                                             *)
(*                                                                         *)
(* Python values are tagged records [t, v]; a str is a sequence of         *)
(* characters (or of format tokens for a description); a dict is a         *)
(* function from a set of string keys.  The properties compare values     *)
(* that may differ in type by their tags first (Same).                     *)
(***************************************************************************)
EXTENDS Integers, Sequences, FiniteSets, TLC

VARIABLES
    pc,                  \* "idle", "ready" (a request is routed) or "done"
    handler,             \* the handler the request is routed to
    schema_class,        \* the schema class the handler is bound to
    event,               \* the AWS event or the Azure HttpRequest
    call,                \* the calls of downstream functions the run made
    downstream,          \* what the downstream function did when called
    constructed,         \* what the response constructor returned or raised
    response,            \* what the handler returned or raised
    telemetry,           \* the events the run tracked
    LOG_REQUEST_DETAILS  \* the module constant of Azure/function_app.py

vars ==
    <<pc, handler, schema_class, event, call, downstream, constructed, response, telemetry,
      LOG_REQUEST_DETAILS>>

-----------------------------------------------------------------------------
(* Python values *)

Str(s) == [t |-> "str", v |-> s]
IntV(n) == [t |-> "int", v |-> n]
BoolV(b) == [t |-> "bool", v |-> b]
ListV(l) == [t |-> "list", v |-> l]
DictV(d) == [t |-> "dict", v |-> d]
NoneV == [t |-> "none", v |-> <<>>]

EmptyDict == [k \in {} |-> NoneV]

\* dict.get(key) with the default None
Get(d, k) == IF k \in DOMAIN d THEN d[k] ELSE NoneV

\* d with d[k] = val set (insert or overwrite)
Put(d, k, val) == (k :> val) @@ d

\* d without the keys of ks
Without(d, ks) == [x \in DOMAIN d \ ks |-> d[x]]

\* Python truthiness of a value
Truthy(val) ==
    CASE val.t = "none" -> FALSE
      [] val.t = "bool" -> val.v
      [] val.t = "int" -> val.v # 0
      [] val.t = "dict" -> DOMAIN val.v # {}
      [] OTHER -> Len(val.v) > 0

\* The outcome of a Python call: a returned value or a raised exception
Return(val) == [raised |-> FALSE, exc |-> "", val |-> val]
Raise(e) == [raised |-> TRUE, exc |-> e, val |-> NoneV]

-----------------------------------------------------------------------------
(* schemas.py: the marshmallow schema classes *)

FeatureSchemas ==
    {"CatalystBaseSchema", "LimitSchema", "GeomSchema", "ColSchema",
     "LimitGeomSchema", "LimitColSchema", "GeomColSchema", "LimitGeomColSchema"}

SchemaClasses ==
    FeatureSchemas \cup {"AbstractHierarchicalSchema", "LatestCollectionsSchema"}

\* The direct base classes of a schema class, in declaration order
\* (marshmallow.Schema itself declares no field and is left out).
Bases(c) ==
    CASE c = "AbstractHierarchicalSchema" -> <<"CatalystBaseSchema">>
      [] c = "LimitSchema" -> <<"CatalystBaseSchema">>
      [] c = "GeomSchema" -> <<"AbstractHierarchicalSchema">>
      [] c = "ColSchema" -> <<"AbstractHierarchicalSchema">>
      [] c = "LimitGeomSchema" -> <<"LimitSchema", "GeomSchema">>
      [] c = "LimitColSchema" -> <<"LimitSchema", "ColSchema">>
      [] c = "GeomColSchema" -> <<"GeomSchema", "ColSchema">>
      [] c = "LimitGeomColSchema" -> <<"LimitSchema", "GeomSchema", "ColSchema">>
      [] OTHER -> <<>>

Field(attr, data_key, type, required) ==
    [attr |-> attr, data_key |-> data_key, type |-> type, required |-> required]

\* The fields declared in the body of a class itself
OwnFields(c) ==
    CASE c = "LatestCollectionsSchema" ->
            << Field("flag_recent_updates", "flag-recent-updates", "Boolean", FALSE),
               Field("recent_update_days", "recent-update-days", "Integer", FALSE) >>
      [] c = "CatalystBaseSchema" ->
            << Field("wkt", "wkt", "String", FALSE),
               Field("use_latest_collection", "use-latest-collection", "Boolean", FALSE) >>
      [] c = "AbstractHierarchicalSchema" ->
            << Field("hierarchical_output", "hierarchical-output", "Boolean", FALSE) >>
      [] c = "LimitSchema" ->
            << Field("request_limit", "request-limit", "Integer", FALSE) >>
      [] c = "ColSchema" ->
            << Field("collection", "collection", "List", TRUE) >>
      [] OTHER -> <<>>

Range(s) == {s[i] : i \in 1..Len(s)}

RECURSIVE Reverse(_)
Reverse(s) == IF s = <<>> THEN <<>> ELSE Reverse(Tail(s)) \o <<Head(s)>>

RECURSIVE Flatten(_)
Flatten(ss) == IF ss = <<>> THEN <<>> ELSE Head(ss) \o Flatten(Tail(ss))

\* s without its head when that is x
Behead(s, x) == IF s # <<>> /\ Head(s) = x THEN Tail(s) ELSE s

\* The sequences of ss with every occurrence of x as a head removed, and
\* the emptied ones dropped
RECURSIVE DropHead(_, _)
DropHead(ss, x) ==
    IF ss = <<>> THEN <<>>
    ELSE (IF Behead(Head(ss), x) = <<>> THEN <<>> ELSE <<Behead(Head(ss), x)>>)
         \o DropHead(Tail(ss), x)

\* Whether the head of live[i] is in the tail of none of the sequences
GoodHead(live, i) == \A j \in 1..Len(live) : Head(live[i]) \notin Range(Tail(live[j]))

\* The first sequence of live whose head is good
FirstGood(live) ==
    CHOOSE i \in 1..Len(live) : GoodHead(live, i) /\ \A n \in 1..(i - 1) : ~GoodHead(live, n)

\* The merge step of Python's C3 linearisation: the first head that is in
\* the tail of no sequence comes next and is removed from every sequence.
RECURSIVE C3Merge(_), C3Step(_)
C3Merge(ss) == C3Step(DropHead(ss, ""))

C3Step(live) ==
    IF live = <<>> THEN <<>>
    ELSE <<Head(live[FirstGood(live)])>> \o C3Merge(DropHead(live, Head(live[FirstGood(live)])))

\* A linearisation that knows the class alone
OwnClassOnly(c) == <<c>>

\* inspect.getmro(klass): the class, then the merge of the linearisations
\* of its bases and of the list of the bases
RECURSIVE Mro(_), MroOfEach(_)
Mro(c) == <<c>> \o C3Merge(MroOfEach(Bases(c)) \o <<Bases(c)>>)

MroOfEach(bs) == IF bs = <<>> THEN <<>> ELSE <<Mro(Head(bs))>> \o MroOfEach(Tail(bs))

\* fs with the field of f's attribute name replaced by f, or f appended
RECURSIVE Upsert(_, _)
Upsert(fs, f) ==
    IF fs = <<>> THEN <<f>>
    ELSE IF Head(fs).attr = f.attr THEN <<f>> \o Tail(fs)
    ELSE <<Head(fs)>> \o Upsert(Tail(fs), f)

\* dict(pairs) keyed by attr: a key keeps the position of its first
\* occurrence and the value of its last
RECURSIVE DictOfFields(_)
DictOfFields(fs) ==
    IF fs = <<>> THEN <<>>
    ELSE Upsert(DictOfFields(SubSeq(fs, 1, Len(fs) - 1)), fs[Len(fs)])

\* klass._declared_fields: the inherited fields, collected over the MRO in
\* reverse (the class itself excluded), then the class's own
RECURSIVE DeclaredFields(_), DeclaredFieldsOfEach(_)
DeclaredFields(c) ==
    DictOfFields(DeclaredFieldsOfEach(Reverse(Tail(Mro(c)))) \o OwnFields(c))

DeclaredFieldsOfEach(bs) ==
    IF bs = <<>> THEN <<>> ELSE DeclaredFields(Head(bs)) \o DeclaredFieldsOfEach(Tail(bs))

\* The declared fields and the MRO of every schema class, computed once
Fields == [c \in SchemaClasses |-> DeclaredFields(c)]

MroOf == [c \in SchemaClasses |-> Mro(c)]

\* schema.fields.keys(): the attribute names, in order
FieldNames(c) == [i \in 1..Len(Fields[c]) |-> Fields[c][i].attr]

\* The query-string keys the schema reads
DataKeys(c) == {Fields[c][i].data_key : i \in 1..Len(Fields[c])}

\* isinstance(schema, ColSchema)
IsMultiCollection(c) == "ColSchema" \in Range(MroOf[c])

-----------------------------------------------------------------------------
(* String conversions.  A str that is split or parsed is a sequence of     *)
(* one-character strings.                                                  *)

\* str.split(sep) for a one-character sep
RECURSIVE SplitFrom(_, _, _)
SplitFrom(s, sep, cur) ==
    IF s = <<>> THEN <<cur>>
    ELSE IF Head(s) = sep THEN <<cur>> \o SplitFrom(Tail(s), sep, <<>>)
    ELSE SplitFrom(Tail(s), sep, Append(cur, Head(s)))

\* A split that leaves the str whole
NoSplit(s, sep) == <<s>>

Split(s, sep) == SplitFrom(s, sep, <<>>)

Digits == <<"0", "1", "2", "3", "4", "5", "6", "7", "8", "9">>

IsDigit(ch) == ch \in Range(Digits)

DigitVal(ch) == (CHOOSE i \in 1..10 : Digits[i] = ch) - 1

RECURSIVE DigitsVal(_)
DigitsVal(s) ==
    IF s = <<>> THEN 0 ELSE 10 * DigitsVal(SubSeq(s, 1, Len(s) - 1)) + DigitVal(s[Len(s)])

AllDigits(s) == s # <<>> /\ \A i \in 1..Len(s) : IsDigit(s[i])

\* int(s) of a str: an optional sign and decimal digits; anything else is a
\* ValueError
IntParses(s) ==
    \/ AllDigits(s)
    \/ s # <<>> /\ Head(s) \in {"-", "+"} /\ AllDigits(Tail(s))

IntOf(s) ==
    IF AllDigits(s) THEN DigitsVal(s)
    ELSE IF Head(s) = "-" THEN 0 - DigitsVal(Tail(s))
    ELSE DigitsVal(Tail(s))

\* marshmallow.fields.Boolean.truthy and .falsy (the str members)
BooleanTruthy ==
    {<<"t">>, <<"T">>, <<"t", "r", "u", "e">>, <<"T", "r", "u", "e">>,
     <<"T", "R", "U", "E">>, <<"o", "n">>, <<"O", "n">>, <<"O", "N">>, <<"y">>,
     <<"Y">>, <<"y", "e", "s">>, <<"Y", "e", "s">>, <<"Y", "E", "S">>, <<"1">>}

BooleanFalsy ==
    {<<"f">>, <<"F">>, <<"f", "a", "l", "s", "e">>, <<"F", "a", "l", "s", "e">>,
     <<"F", "A", "L", "S", "E">>, <<"o", "f", "f">>, <<"O", "f", "f">>,
     <<"O", "F", "F">>, <<"n">>, <<"N">>, <<"n", "o">>, <<"N", "o">>, <<"N", "O">>,
     <<"0">>}

\* x.replace('_', '-') on the attribute names of schemas.py
Hyphenate(x) ==
    CASE x = "use_latest_collection" -> "use-latest-collection"
      [] x = "hierarchical_output" -> "hierarchical-output"
      [] x = "request_limit" -> "request-limit"
      [] x = "flag_recent_updates" -> "flag-recent-updates"
      [] x = "recent_update_days" -> "recent-update-days"
      [] OTHER -> x

\* sep.join(xs), as the sequence of its pieces
RECURSIVE Join(_, _)
Join(xs, sep) ==
    IF xs = <<>> THEN <<>>
    ELSE IF Len(xs) = 1 THEN xs
    ELSE <<Head(xs), sep>> \o Join(Tail(xs), sep)

\* A description is a sequence of format tokens: literal text, the
\* replacement field "{attr}", another replacement field ("{name}", "{}"),
\* an escaped brace ("{{", "}}") or a single brace.

\* What a token contributes to the formatted text
Piece(tok, attributes) ==
    CASE tok = "{attr}" -> attributes
      [] tok = "{{" -> <<"{">>
      [] tok = "}}" -> <<"}">>
      [] OTHER -> <<tok>>

Prepend(piece, rest) == IF rest.raised THEN rest ELSE Return(Str(piece \o rest.val.v))

\* descr.format(attr = attributes), attributes a sequence of pieces
RECURSIVE Format(_, _)
Format(descr, attributes) ==
    IF descr = <<>> THEN Return(Str(<<>>))
    ELSE CASE Head(descr) = "{" ->
                Raise("ValueError: Single '{' encountered in format string")
           [] Head(descr) = "}" ->
                Raise("ValueError: Single '}' encountered in format string")
           [] Head(descr) = "{}" -> Raise("IndexError: Replacement index 0 out of range")
           [] Head(descr) = "{name}" -> Raise("KeyError: 'name'")
           [] OTHER -> Prepend(Piece(Head(descr), attributes), Format(Tail(descr), attributes))

-----------------------------------------------------------------------------
(* marshmallow: Schema.load with Meta.unknown = INCLUDE *)

\* A Boolean field that takes the literals 'true' and 'false' only
DeserializeBooleanLiteral(raw) ==
    IF raw.t = "str" /\ raw.v = <<"t", "r", "u", "e">>
    THEN [ok |-> TRUE, val |-> BoolV(TRUE), msg |-> ""]
    ELSE IF raw.t = "str" /\ raw.v = <<"f", "a", "l", "s", "e">>
    THEN [ok |-> TRUE, val |-> BoolV(FALSE), msg |-> ""]
    ELSE [ok |-> FALSE, val |-> NoneV, msg |-> "Not a valid boolean."]

\* fields.Boolean: a str of the truthy set is True, one of the falsy set
\* is False, any other is not valid
DeserializeBoolean(raw) ==
    IF raw.t = "str" /\ raw.v \in BooleanTruthy
    THEN [ok |-> TRUE, val |-> BoolV(TRUE), msg |-> ""]
    ELSE IF raw.t = "str" /\ raw.v \in BooleanFalsy
    THEN [ok |-> TRUE, val |-> BoolV(FALSE), msg |-> ""]
    ELSE [ok |-> FALSE, val |-> NoneV, msg |-> "Not a valid boolean."]

\* field.deserialize(raw): the value, or the field's error message
Deserialize(type, raw) ==
    CASE type = "String" ->
            IF raw.t = "str" THEN [ok |-> TRUE, val |-> raw, msg |-> ""]
            ELSE [ok |-> FALSE, val |-> NoneV, msg |-> "Not a valid string."]
      [] type = "Boolean" -> DeserializeBoolean(raw)
      [] type = "Integer" ->
            IF raw.t = "str" /\ IntParses(raw.v)
            THEN [ok |-> TRUE, val |-> IntV(IntOf(raw.v)), msg |-> ""]
            ELSE [ok |-> FALSE, val |-> NoneV, msg |-> "Not a valid integer."]
      [] type = "List" ->
            \* List(String()): the elements of a split str are strs
            IF raw.t = "list" THEN [ok |-> TRUE, val |-> raw, msg |-> ""]
            ELSE [ok |-> FALSE, val |-> NoneV, msg |-> "Not a valid list."]

\* The error of a field that is never required
FieldErrorOptional(f, params) ==
    IF f.data_key \notin DOMAIN params THEN ""
    ELSE Deserialize(f.type, params[f.data_key]).msg

\* The error of one field on the input, "" when it has none
FieldError(f, params) ==
    IF f.data_key \notin DOMAIN params
    THEN IF f.required THEN "Missing data for required field." ELSE ""
    ELSE Deserialize(f.type, params[f.data_key]).msg

\* str(ValidationError): the failing data keys with their messages, in
\* field order
RECURSIVE ErrorText(_, _)
ErrorText(fs, params) ==
    IF fs = <<>> THEN <<>>
    ELSE (IF FieldError(Head(fs), params) = "" THEN <<>>
          ELSE <<Head(fs).data_key, FieldError(Head(fs), params)>>)
         \o ErrorText(Tail(fs), params)

\* The field of schema c with the attribute name a
FieldAt(c, a) == Fields[c][CHOOSE i \in 1..Len(Fields[c]) : Fields[c][i].attr = a]

\* The attribute names of the fields whose data key is in the input
PresentAttrs(c, params) ==
    {Fields[c][i].attr : i \in {j \in 1..Len(Fields[c]) : Fields[c][j].data_key \in DOMAIN params}}

\* A load that drops the keys that are no field's data key (unknown = EXCLUDE)
LoadedExclude(c, params) ==
    [k \in PresentAttrs(c, params) |->
        Deserialize(FieldAt(c, k).type, params[FieldAt(c, k).data_key]).val]

\* The result of a load without errors: the deserialised fields under their
\* attribute names, then every key that is no field's data key copied as it
\* is (unknown = INCLUDE), which overwrites a field of the same name
Loaded(c, params) ==
    [k \in PresentAttrs(c, params) \cup (DOMAIN params \ DataKeys(c)) |->
        IF k \in DOMAIN params \ DataKeys(c) THEN params[k]
        ELSE Deserialize(FieldAt(c, k).type, params[FieldAt(c, k).data_key]).val]

\* schema.load(params)
Load(c, params) ==
    IF ErrorText(Fields[c], params) # <<>>
    THEN Raise("ValidationError")
    ELSE Return(DictV(Loaded(c, params)))

\* str(e) of the ValidationError that Load raises
LoadErrorText(c, params) == ErrorText(Fields[c], params)

-----------------------------------------------------------------------------
(* utils.py *)

MethodNotSupported ==
    <<"The HTTP method requested is not supported. This endpoint only supports 'GET' requests.">>

OnlyRecentUpdateDays == <<"The only supported query parameter is 'recent-update-days'.">>

\* handle_error(error, description, code): description is a str (a token
\* sequence), taken as str(error) when none is given
handle_error(description, code) ==
    [k \in {"code", "description", "errorSource"} |->
        CASE k = "code" -> IntV(code)
          [] k = "description" -> Str(description)
          [] k = "errorSource" -> Str(<<"Catalyst Wrapper">>)]

\* remove_query_params(url): a url is the sequence of its pieces, the
\* query string following a "?" piece
RECURSIVE remove_query_params(_)
remove_query_params(url) ==
    IF url = <<>> \/ Head(url) = "?" THEN <<>>
    ELSE <<Head(url)>> \o remove_query_params(Tail(url))

\* str(v) of a parsed value
RECURSIVE NatToStr(_)
NatToStr(n) == IF n < 10 THEN <<Digits[n + 1]>> ELSE NatToStr(n \div 10) \o <<Digits[(n % 10) + 1]>>

StrOf(val) ==
    CASE val.t = "str" -> val
      [] val.t = "int" -> Str(IF val.v < 0 THEN <<"-">> \o NatToStr(0 - val.v) ELSE NatToStr(val.v))
      [] val.t = "bool" -> Str(IF val.v THEN <<"True">> ELSE <<"False">>)
      [] val.t = "none" -> Str(<<"None">>)
      [] OTHER -> Str(<<"repr">> \o val.v)

\* What one handler run leaves behind: its return value or exception, the
\* downstream calls it made, the telemetry events it tracked, and the query
\* parameter object it was given, as it is after the run.
Ran(result, calls, tracked, params) ==
    [result |-> result, calls |-> calls, tracked |-> tracked, params |-> params]

\* The downstream function bound to each schema by the handlers
NgdFunc(c) ==
    CASE c = "CatalystBaseSchema" -> "items"
      [] c = "LimitSchema" -> "items_limit"
      [] c = "GeomSchema" -> "items_geom"
      [] c = "ColSchema" -> "items_col"
      [] c = "LimitGeomSchema" -> "items_limit_geom"
      [] c = "LimitColSchema" -> "items_limit_col"
      [] c = "GeomColSchema" -> "items_geom_col"
      [] c = "LimitGeomColSchema" -> "items_limit_geom_col"

\* params['collection'] = col.split(',') on a multi-collection schema,
\* when the value is there and truthy
SplitCollection(params, multi) ==
    IF ~multi THEN Return(params)
    ELSE IF params.t # "dict"
    THEN Raise("AttributeError: 'NoneType' object has no attribute 'get'")
    ELSE IF ~Truthy(Get(params.v, "collection")) THEN Return(params)
    ELSE IF params.v["collection"].t # "str"
    THEN Raise("AttributeError: 'list' object has no attribute 'split'")
    ELSE Return(DictV(Put(params.v, "collection",
                          ListV(Split(params.v["collection"].v, ",")))))

\* schema.load(params) of the handlers: a non-mapping input is a
\* ValidationError too ("Invalid input type.")
LoadParams(c, params) ==
    IF params.t # "dict" THEN Raise("ValidationError") ELSE Load(c, params.v)

LoadParamsErrorText(c, params) ==
    IF params.t # "dict" THEN <<"_schema", "Invalid input type.">>
    ELSE LoadErrorText(c, params.v)

\* custom_params: the entries of parsed_params under the schema's field
\* names, popped from it
CustomParams(c, parsed) == [k \in Range(FieldNames(c)) \cap DOMAIN parsed |-> parsed[k]]

\* parsed_params had nothing been popped from it
ForwardedWhole(c, parsed) == parsed

\* parsed_params after the pops: what is forwarded as query_params
Forwarded(c, parsed) == Without(parsed, Range(FieldNames(c)))

\* The attribute list substituted for {attr}: the field names but 'limit',
\* hyphenated and joined by ', '
RECURSIVE SelectNot(_, _)
SelectNot(xs, x) ==
    IF xs = <<>> THEN <<>>
    ELSE (IF Head(xs) # x THEN <<Head(xs)>> ELSE <<>>) \o SelectNot(Tail(xs), x)

RECURSIVE HyphenateEach(_)
HyphenateEach(xs) ==
    IF xs = <<>> THEN <<>> ELSE <<Hyphenate(Head(xs))>> \o HyphenateEach(Tail(xs))

Attributes(c) == Join(HyphenateEach(SelectNot(FieldNames(c), "limit")), ", ")

\* response_data with its description set to the formatted one
WithDescription(response_data, f) ==
    IF f.raised THEN f ELSE Return(DictV(Put(response_data, "description", f.val)))

\* The rewriting of the description of a downstream error result
Substitute(c, response_data) ==
    IF Truthy(Get(response_data, "errorSource")) /\ Get(response_data, "description").t = "str"
    THEN WithDescription(response_data, Format(response_data["description"].v, Attributes(c)))
    ELSE Return(DictV(response_data))

\* A call of a downstream function: its positional and keyword arguments
Call(func, args, kwargs) == [func |-> func, args |-> args, kwargs |-> kwargs]

\* custom_params with the collection of a single-collection schema taken
\* from the query when it has one
CustomParamsQueryFirst(c, parsed, route_params) ==
    IF IsMultiCollection(c) THEN [k \in Range(FieldNames(c)) \cap DOMAIN parsed |-> parsed[k]]
    ELSE IF "collection" \in DOMAIN parsed
    THEN [k \in (Range(FieldNames(c)) \cup {"collection"}) \cap DOMAIN parsed |-> parsed[k]]
    ELSE Put([k \in Range(FieldNames(c)) \cap DOMAIN parsed |-> parsed[k]],
             "collection", Get(route_params.v, "collection"))

\* custom_params: the popped fields, and on a single-collection schema the
\* path's collection
CustomParamsFor(c, parsed, route_params) ==
    IF IsMultiCollection(c) THEN CustomParams(c, parsed)
    ELSE Put(CustomParams(c, parsed), "collection", Get(route_params.v, "collection"))

\* ngd_api_func(query_params = parsed_params, headers = headers, **custom_params)
FeaturesCall(c, parsed, route_params, headers) ==
    Call(NgdFunc(c), <<>>,
         Put(Put(CustomParamsFor(c, parsed, route_params),
                 "query_params", DictV(Forwarded(c, parsed))),
             "headers", headers))

GET == Str(<<"GET">>)

NoneHasNoGet == "AttributeError: 'NoneType' object has no attribute 'get'"

\* construct_features_response from the call of the downstream function on;
\* out is what the downstream function does
features_dispatch(data, c, out, params, parsed) ==
    Ran(IF out.raised THEN out ELSE Substitute(c, out.val.v),
        <<FeaturesCall(c, parsed, data.route_params, data.headers)>>, <<>>, params)

\* construct_features_response from schema.load on
features_load(data, c, out, params, loaded) ==
    IF loaded.raised
    THEN Ran(Return(DictV(handle_error(LoadParamsErrorText(c, params), 400))), <<>>, <<>>, params)
    ELSE IF ~IsMultiCollection(c) /\ data.route_params.t # "dict"
    THEN Ran(Raise(NoneHasNoGet), <<>>, <<>>, params)
    ELSE features_dispatch(data, c, out, params, loaded.val.v)

\* construct_features_response from the split of 'collection' on
features_split(data, c, out, split) ==
    IF split.raised THEN Ran(split, <<>>, <<>>, data.params)
    ELSE features_load(data, c, out, split.val, LoadParams(c, split.val))

\* construct_features_response(data, schema_class, ngd_api_func)
construct_features_response(data, c, out) ==
    IF data.method # GET
    THEN Ran(Return(DictV(handle_error(MethodNotSupported, 405))), <<>>, <<>>, data.params)
    ELSE features_split(data, c, out, SplitCollection(data.params, IsMultiCollection(c)))

\* fail_condition1 or fail_condition2 of the latest-collections handlers
OnlyParamFails(params) ==
    \/ Cardinality(DOMAIN params) > 1
    \/ Cardinality(DOMAIN params) = 1 /\ ~Truthy(Get(params, "recent-update-days"))

\* The downstream call of a latest-collections handler
LatestCall(collection, parsed) ==
    IF Truthy(collection)
    THEN <<Call("get_specific_latest_collections", <<ListV(<<collection.v>>)>>, parsed)>>
    ELSE <<Call("get_latest_collection_versions", <<>>, parsed)>>

\* construct_collections_response from schema.load on
collections_load(data, out, loaded) ==
    IF loaded.raised
    THEN Ran(Return(DictV(handle_error(
                 LoadErrorText("LatestCollectionsSchema", data.params.v), 400))),
             <<>>, <<>>, data.params)
    ELSE Ran(out, LatestCall(Get(data.route_params.v, "collection"), loaded.val.v),
             <<>>, data.params)

\* construct_collections_response(data)
construct_collections_response(data, out) ==
    IF data.method # GET
    THEN Ran(Return(DictV(handle_error(MethodNotSupported, 405))), <<>>, <<>>, data.params)
    ELSE IF data.params.t # "dict"
    THEN Ran(Raise("TypeError: object of type 'NoneType' has no len()"), <<>>, <<>>, data.params)
    ELSE IF OnlyParamFails(data.params.v)
    THEN Ran(Return(DictV(handle_error(OnlyRecentUpdateDays, 400))), <<>>, <<>>, data.params)
    ELSE IF data.route_params.t # "dict"
    THEN Ran(Raise(NoneHasNoGet), <<>>, <<>>, data.params)
    ELSE collections_load(data, out, Load("LatestCollectionsSchema", data.params.v))

-----------------------------------------------------------------------------
(* lambda_app.py *)

AwsDomainName(ev) ==
    IF "requestContext" \in DOMAIN ev THEN Get(ev["requestContext"].v, "domainName") ELSE NoneV

AwsPath(ev) ==
    IF "requestContext" \in DOMAIN ev THEN Get(ev["requestContext"].v, "path") ELSE NoneV

\* AWSSerialisedRequest(event): the request object, or the exception its
\* constructor raises on an event that lacks 'http' or the request context
AWSSerialisedRequest(ev) ==
    IF Get(ev, "http").t # "dict"
    THEN Raise(NoneHasNoGet)
    ELSE IF AwsDomainName(ev).t # "str" \/ AwsPath(ev).t # "str"
    THEN Raise("TypeError: unsupported operand type(s) for +: 'NoneType' and 'NoneType'")
    ELSE Return(
        [method |-> Get(ev["http"].v, "method"),
         url |-> Str(AwsDomainName(ev).v \o AwsPath(ev).v),
         params |-> IF "queryStringParameters" \in DOMAIN ev
                    THEN ev["queryStringParameters"] ELSE DictV(EmptyDict),
         route_params |-> Get(ev, "pathParameters"),
         headers |-> IF "headers" \in DOMAIN ev THEN ev["headers"] ELSE DictV(EmptyDict)])

\* aws_serialise_response(data)
aws_serialise_response(data) ==
    IF data.t # "dict"
    THEN Raise("AttributeError: object has no attribute 'pop'")
    ELSE IF "headers" \notin DOMAIN data.v
    THEN Raise("KeyError: 'headers'")
    ELSE Return(DictV(
        [k \in {"isBase64Encoded", "statusCode", "headers", "body"} |->
            CASE k = "isBase64Encoded" -> BoolV(FALSE)
              [] k = "statusCode" -> IF "code" \in DOMAIN data.v THEN data.v["code"] ELSE IntV(200)
              [] k = "headers" -> data.v["headers"]
              [] k = "body" -> DictV(Without(data.v, {"code"}))]))

\* The first two statements of the try block of aws_process_request: the
\* request object is built and the response constructed from it
aws_construct(ev, data, construct_response_func, c, out) ==
    IF data.raised THEN Ran(data, <<>>, <<>>, Get(ev, "queryStringParameters"))
    ELSE IF construct_response_func = "construct_collections_response"
    THEN construct_collections_response(data.val, out)
    ELSE construct_features_response(data.val, c, out)

\* The try block's last statements: the response is serialised and returned
aws_serialise(ran) ==
    IF ran.result.raised THEN ran
    ELSE Ran(aws_serialise_response(ran.result.val), ran.calls, ran.tracked, ran.params)

\* The except clause of aws_process_request: the error body is serialised
\* outside any try block
aws_except(ran) ==
    IF ~ran.result.raised THEN ran
    ELSE Ran(aws_serialise_response(DictV(handle_error(<<ran.result.exc>>, 500))),
             ran.calls, ran.tracked, ran.params)

\* aws_process_request(event, construct_response_func, **kwargs), with
\* schema_class = c among the kwargs of a feature handler
aws_process_request(ev, construct_response_func, c, out) ==
    aws_except(aws_serialise(
        aws_construct(ev, AWSSerialisedRequest(ev), construct_response_func, c, out)))

\* The event after the run: the query parameters are the event's own dict,
\* which the run altered in place
EventAfter(ev, ran) ==
    IF "queryStringParameters" \in DOMAIN ev
    THEN Put(ev, "queryStringParameters", ran.params) ELSE ev

-----------------------------------------------------------------------------
(* function_app.py *)

\* json.dumps(data)
json_dumps(data) == [t |-> "json", v |-> data]

\* HttpResponse(body, mimetype = "application/json", status_code): the
\* status code is 200 when none is given
HttpResponse(body, status_code) ==
    [t |-> "HttpResponse",
     v |-> [body |-> body, mimetype |-> "application/json", status_code |-> status_code]]

\* track_event(name, custom_dimensions)
Tracked(name, custom_dimensions) == [name |-> name, custom_dimensions |-> custom_dimensions]

\* The entries 'query_params.<k>': str(v) of the telemetry dimensions
QueryDimensions(parsed) ==
    [k \in {"query_params." \o x : x \in DOMAIN parsed} |->
        StrOf(parsed[CHOOSE x \in DOMAIN parsed : "query_params." \o x = k])]

\* The telemetry dimensions of a latest-collections request: the query
\* entries, the keys of drop popped, then the method, the path and (when
\* given) the collection
CustomDimensions(parsed, drop, url, collection) ==
    IF collection.t = "none"
    THEN Put(Put(Without(QueryDimensions(parsed), drop), "method", GET), "url.path", url)
    ELSE Put(Put(Put(Without(QueryDimensions(parsed), drop), "method", GET), "url.path", url),
             "url.path_params.collection", collection)

\* get_request_data(req): the query parameters are copied
get_request_data(req) ==
    [method |-> req["method"], params |-> req["params"],
     route_params |-> req["route_params"], headers |-> req["headers"]]

\* construct_response from the telemetry on: 'telemetryData' is popped and
\* tracked, the status code is the result's 'code' or 200
respond(req, calls, data) ==
    Ran(Return(HttpResponse(json_dumps(Without(data, {"telemetryData"})),
                            IF "code" \in DOMAIN data THEN data["code"] ELSE IntV(200))),
        calls,
        IF Truthy(Get(data, "telemetryData"))
        THEN <<Tracked("OS NGD API - Features", data["telemetryData"])>> ELSE <<>>,
        req["params"])

\* construct_response from the rewriting of the description on
substituted(req, calls, subst) ==
    IF subst.raised THEN Ran(subst, calls, <<>>, req["params"])
    ELSE respond(req, calls, subst.val.v)

\* construct_response from the call of the downstream function on
dispatch(req, c, out, calls) ==
    IF out.raised THEN Ran(out, calls, <<>>, req["params"])
    ELSE substituted(req, calls, Substitute(c, out.val.v))

\* construct_response from schema.load on
load(req, c, out, params, loaded) ==
    IF loaded.raised
    THEN Ran(Return(DictV(handle_error(LoadParamsErrorText(c, params), 400))),
             <<>>, <<>>, req["params"])
    ELSE dispatch(req, c, out,
                  <<FeaturesCall(c, loaded.val.v, get_request_data(req).route_params,
                                 get_request_data(req).headers)>>)

\* construct_response from the split of 'collection' on
split_collection(req, c, out, split) ==
    IF split.raised THEN Ran(split, <<>>, <<>>, req["params"])
    ELSE load(req, c, out, split.val, LoadParams(c, split.val))

\* function_app.construct_response(req, schema_class, func_): the try block
construct_response_try(req, c, out) ==
    IF get_request_data(req).method # GET
    THEN Ran(Return(DictV(handle_error(MethodNotSupported, 405))), <<>>, <<>>, req["params"])
    ELSE split_collection(req, c, out,
                          SplitCollection(get_request_data(req).params, IsMultiCollection(c)))

\* The except clause of function_app.construct_response and of
\* function_app.http_latest_collections: the error body is built and
\* dropped, and the function ends without a return statement
except_without_return(ran) ==
    IF ran.result.raised THEN Ran(Return(NoneV), ran.calls, ran.tracked, ran.params)
    ELSE ran

\* function_app.construct_response(req, schema_class, func_)
construct_response(req, c, out) == except_without_return(construct_response_try(req, c, out))

\* http_latest_collections from schema.load on
latest_load(req, out, collection, loaded) ==
    IF loaded.raised
    THEN Ran(Return(DictV(handle_error(
                 LoadErrorText("LatestCollectionsSchema", req["params"].v), 400))),
             <<>>, <<>>, req["params"])
    ELSE IF out.raised
    THEN Ran(out, LatestCall(collection, loaded.val.v), <<>>, req["params"])
    ELSE Ran(Return(HttpResponse(json_dumps(out.val.v), IntV(200))),
             LatestCall(collection, loaded.val.v),
             <<Tracked("HTTP_Request",
                       CustomDimensions(loaded.val.v, {"key"},
                                        Str(remove_query_params(req["url"].v)),
                                        IF Truthy(collection) THEN collection ELSE NoneV))>>,
             req["params"])

\* function_app.http_latest_collections(req): the try block
http_latest_collections_try(req, out) ==
    IF req["method"] # GET
    THEN Ran(Return(DictV(handle_error(MethodNotSupported, 405))), <<>>, <<>>, req["params"])
    ELSE IF OnlyParamFails(req["params"].v)
    THEN Ran(Return(DictV(handle_error(OnlyRecentUpdateDays, 400))), <<>>, <<>>, req["params"])
    ELSE latest_load(req, out, Get(req["route_params"].v, "collection"),
                     Load("LatestCollectionsSchema", req["params"].v))

\* function_app.http_latest_collections(req)
http_latest_collections(req, out) == except_without_return(http_latest_collections_try(req, out))

-----------------------------------------------------------------------------
(* Azure/function_app.py *)

\* The error response that Azure/function_app.py builds in place
error_response(code, description) ==
    HttpResponse(
        json_dumps([k \in {"code", "description", "errorSource"} |->
                       CASE k = "code" -> IntV(code)
                         [] k = "description" -> Str(description)
                         [] k = "errorSource" -> Str(<<"Catalyst Wrapper">>)]),
        IntV(code))

\* Azure construct_response from the telemetry on: 'telemetryData' is
\* popped and tracked when log (LOG_REQUEST_DETAILS) is set; no status code
\* is given to the response
Azure_respond(req, calls, data, log) ==
    Ran(Return(HttpResponse(
                   json_dumps(IF log THEN Without(data, {"telemetryData"}) ELSE data),
                   IntV(200))),
        calls,
        IF log /\ Truthy(Get(data, "telemetryData"))
        THEN <<Tracked("OS NGD API - Features", data["telemetryData"])>> ELSE <<>>,
        req["params"])

\* Azure construct_response from the rewriting of the description on
Azure_substituted(req, calls, subst, log) ==
    IF subst.raised THEN Ran(subst, calls, <<>>, req["params"])
    ELSE Azure_respond(req, calls, subst.val.v, log)

\* Azure construct_response from the call of the downstream function on
Azure_dispatch(req, c, out, calls, log) ==
    IF out.raised THEN Ran(out, calls, <<>>, req["params"])
    ELSE Azure_substituted(req, calls, Substitute(c, out.val.v), log)

\* Azure construct_response from schema.load on
Azure_load(req, c, out, params, loaded, log) ==
    IF loaded.raised
    THEN Ran(Return(error_response(400, LoadParamsErrorText(c, params))),
             <<>>, <<>>, req["params"])
    ELSE Azure_dispatch(req, c, out,
                        <<FeaturesCall(c, loaded.val.v, req["route_params"], req["headers"])>>,
                        log)

\* Azure construct_response from the split of 'collection' on
Azure_split_collection(req, c, out, split, log) ==
    IF split.raised THEN Ran(split, <<>>, <<>>, req["params"])
    ELSE Azure_load(req, c, out, split.val, LoadParams(c, split.val), log)

\* Azure/function_app.construct_response(req, schema_class, func_): the try
\* block
Azure_construct_response_try(req, c, out, log) ==
    IF req["method"] # GET
    THEN Ran(Return(error_response(405, MethodNotSupported)), <<>>, <<>>, req["params"])
    ELSE Azure_split_collection(req, c, out,
                                SplitCollection(req["params"], IsMultiCollection(c)), log)

\* The except clause of Azure/function_app.construct_response: the answer
\* is 500 with the exception's text
Azure_except(ran) ==
    IF ran.result.raised
    THEN Ran(Return(error_response(500, <<ran.result.exc>>)), ran.calls, ran.tracked, ran.params)
    ELSE ran

\* Azure/function_app.construct_response(req, schema_class, func_)
Azure_construct_response(req, c, out, log) ==
    Azure_except(Azure_construct_response_try(req, c, out, log))

\* Azure http_latest_collections and http_latest_single_col from
\* schema.load on
Azure_latest_load(req, out, loaded, calls, drop, collection) ==
    IF loaded.raised
    THEN Ran(Return(error_response(
                 400, LoadErrorText("LatestCollectionsSchema", req["params"].v))),
             <<>>, <<>>, req["params"])
    ELSE IF out.raised THEN Ran(out, calls, <<>>, req["params"])
    ELSE Ran(Return(HttpResponse(json_dumps(out.val.v), IntV(200))), calls,
             <<Tracked("HTTP_Request",
                       CustomDimensions(loaded.val.v, drop, req["url"], collection))>>,
             req["params"])

\* Azure/function_app.http_latest_collections(req)
Azure_http_latest_collections(req, out) ==
    IF req["method"] # GET
    THEN Ran(Return(error_response(405, MethodNotSupported)), <<>>, <<>>, req["params"])
    ELSE Azure_latest_load(
             req, out, Load("LatestCollectionsSchema", req["params"].v),
             <<Call("get_latest_collection_versions", <<>>,
                    Loaded("LatestCollectionsSchema", req["params"].v))>>,
             {"key", "access_token"}, NoneV)

\* Azure/function_app.http_latest_single_col(req)
Azure_http_latest_single_col(req, out) ==
    IF req["method"] # GET
    THEN Ran(Return(error_response(405, MethodNotSupported)), <<>>, <<>>, req["params"])
    ELSE Azure_latest_load(
             req, out, Load("LatestCollectionsSchema", req["params"].v),
             <<Call("get_specific_latest_collections",
                    <<ListV(<<Get(req["route_params"].v, "collection").v>>)>>,
                    Loaded("LatestCollectionsSchema", req["params"].v))>>,
             {"key"}, Get(req["route_params"].v, "collection"))

-----------------------------------------------------------------------------
(* The requests and the downstream behaviours the model draws from *)

\* The largest number of query parameters of a request
MaxParams == 2

Methods == {GET, Str(<<"POST">>)}

FeatureKeys ==
    {"wkt", "use-latest-collection", "hierarchical-output", "request-limit",
     "collection", "filter", "request_limit"}

LatestKeys == {"recent-update-days", "flag-recent-updates", "foo", "key", "access_token"}

\* The raw values a query key is given
Values(k) ==
    CASE k = "wkt" -> {Str(<<"P", "O", "I", "N", "T">>)}
      [] k = "use-latest-collection" ->
            {Str(<<"t", "r", "u", "e">>), Str(<<"T", "r", "u", "e">>), Str(<<"m", "a", "y", "b", "e">>)}
      [] k = "hierarchical-output" -> {Str(<<"f", "a", "l", "s", "e">>), Str(<<"1">>)}
      [] k = "request-limit" -> {Str(<<"2", "8">>), Str(<<"a", "b", "c">>)}
      [] k = "collection" ->
            {Str(<<>>), Str(<<"a">>), Str(<<"b", ",", "a">>), Str(<<"a", ",", "b", ",", "c">>)}
      [] k = "filter" -> {Str(<<"x", "=", "1">>)}
      [] k = "request_limit" -> {Str(<<"a", "b", "c">>)}
      [] k = "recent-update-days" -> {Str(<<"2", "8">>), Str(<<>>), Str(<<"a", "b", "c">>)}
      [] k = "flag-recent-updates" -> {Str(<<"t", "r", "u", "e">>)}
      [] k = "foo" -> {Str(<<"1">>)}
      [] k = "key" -> {Str(<<"s", "e", "c", "r", "e", "t">>)}
      [] k = "access_token" -> {Str(<<"t", "o", "k", "e", "n">>)}

\* The query strings over keys with at most MaxParams parameters
ParamMaps(keys) ==
    UNION {{f \in [S -> UNION {Values(k) : k \in S}] : \A k \in S : f[k] \in Values(k)} :
           S \in {T \in SUBSET keys : Cardinality(T) <= MaxParams}}

FeatureParams == ParamMaps(FeatureKeys)

LatestParams == ParamMaps(LatestKeys)

PathCollection == DictV([k \in {"collection"} |-> Str(<<"bld-fts-building-4">>)])

Headers == DictV([k \in {"key"} |-> Str(<<"s", "e", "c", "r", "e", "t">>)])

Handlers ==
    {"lambda_handler", "lambda_http_latest_collections",
     "http_features", "http_latest_collections",
     "Azure_http_features", "Azure_http_latest_collections", "Azure_http_latest_single_col"}

LatestHandlers ==
    {"lambda_http_latest_collections", "http_latest_collections",
     "Azure_http_latest_collections", "Azure_http_latest_single_col"}

\* The schemas a handler is bound to
SchemasOf(h) == IF h \in LatestHandlers THEN {"LatestCollectionsSchema"} ELSE FeatureSchemas

\* The path parameters of a route: the {collection} segment of a
\* single-collection route, optional on function_app's latest-collections
\* route
RouteParams(h, c) ==
    CASE h \in {"lambda_http_latest_collections", "http_latest_collections"} ->
            {PathCollection, DictV(EmptyDict)}
      [] h = "Azure_http_latest_single_col" -> {PathCollection}
      [] h = "Azure_http_latest_collections" -> {DictV(EmptyDict)}
      [] OTHER -> IF IsMultiCollection(c) THEN {DictV(EmptyDict)} ELSE {PathCollection}

\* An Azure HttpRequest
AzureRequest(method, params, route_params) ==
    [k \in {"method", "url", "params", "route_params", "headers"} |->
        CASE k = "method" -> method
          [] k = "url" -> Str(IF DOMAIN params = {} THEN <<"https://host/catalyst/features">>
                              ELSE <<"https://host/catalyst/features", "?", "query">>)
          [] k = "params" -> DictV(params)
          [] k = "route_params" -> route_params
          [] k = "headers" -> Headers]

\* An AWS event, without the top-level keys of missing
AwsEvent(method, params, route_params, missing) ==
    [k \in {"http", "requestContext", "queryStringParameters", "pathParameters", "headers"}
           \ missing |->
        CASE k = "http" -> DictV([m \in {"method"} |-> method])
          [] k = "requestContext" ->
                DictV([m \in {"domainName", "path"} |->
                          IF m = "domainName" THEN Str(<<"host">>)
                          ELSE Str(<<"/catalyst/features">>)])
          [] k = "queryStringParameters" -> DictV(params)
          [] k = "pathParameters" -> route_params
          [] k = "headers" -> Headers]

\* The sets of top-level keys an AWS event may lack
AwsMissing == {{}, {"http"}, {"requestContext"}, {"pathParameters"}}

Events(h, c) ==
    LET ps == IF h \in LatestHandlers THEN LatestParams ELSE FeatureParams
    IN  IF h \in {"lambda_handler", "lambda_http_latest_collections"}
        THEN {AwsEvent(m, p, r, x) : m \in Methods, p \in ps, r \in RouteParams(h, c),
                                     x \in AwsMissing}
        ELSE {AzureRequest(m, p, r) : m \in Methods, p \in ps, r \in RouteParams(h, c)}

OsNgdApi == Str(<<"OS NGD API">>)

Result(keys, code, description, errorSource) ==
    [k \in keys |->
        CASE k = "code" -> IntV(code)
          [] k = "description" -> Str(description)
          [] k = "errorSource" -> errorSource
          [] k = "type" -> Str(<<"FeatureCollection">>)
          [] k = "telemetryData" -> DictV([m \in {"numberOfRequests"} |-> IntV(1)])
          [] k = "headers" -> DictV(EmptyDict)]

\* What a downstream feature function may do when called: return a payload
\* (with or without 'code', 'telemetryData' and 'headers'), return an error
\* result, or raise
FeatureOutcomes ==
    {Return(DictV(Result({"type"}, 0, <<>>, NoneV))),
     Return(DictV(Result({"type", "code", "telemetryData", "headers"}, 200, <<>>, NoneV))),
     Return(DictV(Result({"code", "description", "errorSource"}, 400,
                         <<"Not supported query parameter(s): test. Supported are: ", "{attr}">>,
                         OsNgdApi))),
     Return(DictV(Result({"code", "description", "errorSource", "headers", "telemetryData"}, 400,
                         <<"Not supported query parameter(s): test. Supported are: ", "{attr}">>,
                         OsNgdApi))),
     Return(DictV(Result({"code", "description", "errorSource"}, 401,
                         <<"Missing or unsupported API key provided.">>, OsNgdApi))),
     Return(DictV(Result({"description", "errorSource"}, 0,
                         <<"Not supported: ", "{attr}">>, Str(<<"X">>)))),
     Return(DictV(Result({"code", "description", "errorSource"}, 400,
                         <<"Invalid filter: ", "{">>, OsNgdApi))),
     Raise("Exception: downstream failure")}

LatestOutcomes ==
    {Return(DictV([k \in {"collection-lookup"} |-> DictV(EmptyDict)])),
     Return(DictV([k \in {"collection-lookup", "headers"} |-> DictV(EmptyDict)])),
     Raise("TypeError: unexpected keyword argument")}

-----------------------------------------------------------------------------
(* The state machine: the platform delivers a request to a handler, the    *)
(* handler runs, the platform takes its answer.                            *)

NoResponse == [raised |-> FALSE, exc |-> "pending", val |-> NoneV]

NotCalled == [raised |-> FALSE, exc |-> "not called", val |-> NoneV]

Init ==
    /\ pc = "idle"
    /\ handler = "none"
    /\ schema_class = "none"
    /\ event = EmptyDict
    /\ call = <<>>
    /\ downstream = NotCalled
    /\ constructed = NoResponse
    /\ response = NoResponse
    /\ telemetry = <<>>
    /\ LOG_REQUEST_DETAILS \in BOOLEAN

\* The platform routes a request to one of the handlers
Arrive ==
    /\ pc = "idle"
    /\ \E h \in Handlers : \E c \in SchemasOf(h) : \E ev \in Events(h, c) :
          /\ handler' = h
          /\ schema_class' = c
          /\ event' = ev
    /\ pc' = "ready"
    /\ UNCHANGED <<call, downstream, constructed, response, telemetry, LOG_REQUEST_DETAILS>>

\* The handler's run ran ends: its result, calls and telemetry are
\* recorded, with what the downstream function did (out) when it was
\* called and what the response constructor gave (made)
Finish(ran, ev, out, made) ==
    /\ response' = ran.result
    /\ constructed' = made
    /\ call' = ran.calls
    /\ downstream' = IF ran.calls = <<>> THEN NotCalled ELSE out
    /\ telemetry' = ran.tracked
    /\ event' = ev
    /\ pc' = "done"
    /\ UNCHANGED <<handler, schema_class, LOG_REQUEST_DETAILS>>

\* The run of an AWS handler ends; the event is left as the run altered
\* it, and inner is the run of the response constructor inside
\* aws_process_request
FinishAws(ran, inner, out) == Finish(ran, EventAfter(event, ran), out, inner.result)

\* The run of an Azure handler ends: the handler is the response constructor
FinishAzure(ran, out) == Finish(ran, event, out, ran.result)

\* lambda_app.lambda_handler_base .. lambda_handler_limit_geom_col
lambda_handler ==
    /\ pc = "ready" /\ handler = "lambda_handler"
    /\ \E out \in FeatureOutcomes :
          FinishAws(aws_process_request(event, "construct_features_response", schema_class, out),
                    aws_construct(event, AWSSerialisedRequest(event),
                                  "construct_features_response", schema_class, out),
                    out)

\* lambda_app.http_latest_collections
lambda_http_latest_collections ==
    /\ pc = "ready" /\ handler = "lambda_http_latest_collections"
    /\ \E out \in LatestOutcomes :
          FinishAws(aws_process_request(event, "construct_collections_response",
                                        schema_class, out),
                    aws_construct(event, AWSSerialisedRequest(event),
                                  "construct_collections_response", schema_class, out),
                    out)

\* function_app.http_base .. http_limit_geom_col
http_features ==
    /\ pc = "ready" /\ handler = "http_features"
    /\ \E out \in FeatureOutcomes : FinishAzure(construct_response(event, schema_class, out), out)

\* function_app.http_latest_collections
http_latest ==
    /\ pc = "ready" /\ handler = "http_latest_collections"
    /\ \E out \in LatestOutcomes : FinishAzure(http_latest_collections(event, out), out)

\* Azure/function_app.http_base .. http_limit_geom_col
Azure_http_features ==
    /\ pc = "ready" /\ handler = "Azure_http_features"
    /\ \E out \in FeatureOutcomes :
          FinishAzure(Azure_construct_response(event, schema_class, out, LOG_REQUEST_DETAILS), out)

\* Azure/function_app.http_latest_collections
Azure_http_latest ==
    /\ pc = "ready" /\ handler = "Azure_http_latest_collections"
    /\ \E out \in LatestOutcomes : FinishAzure(Azure_http_latest_collections(event, out), out)

\* Azure/function_app.http_latest_single_col
Azure_http_latest_single ==
    /\ pc = "ready" /\ handler = "Azure_http_latest_single_col"
    /\ \E out \in LatestOutcomes : FinishAzure(Azure_http_latest_single_col(event, out), out)

\* The platform has taken the answer; the next request may arrive
Complete ==
    /\ pc = "done"
    /\ pc' = "idle"
    /\ handler' = "none"
    /\ schema_class' = "none"
    /\ event' = EmptyDict
    /\ call' = <<>>
    /\ downstream' = NotCalled
    /\ constructed' = NoResponse
    /\ response' = NoResponse
    /\ telemetry' = <<>>
    /\ UNCHANGED LOG_REQUEST_DETAILS

Next ==
    \/ Arrive
    \/ lambda_handler
    \/ lambda_http_latest_collections
    \/ http_features
    \/ http_latest
    \/ Azure_http_features
    \/ Azure_http_latest
    \/ Azure_http_latest_single
    \/ Complete

Spec == Init /\ [][Next]_vars

-----------------------------------------------------------------------------
(* What the properties below read from a state *)

AwsHandlers == {"lambda_handler", "lambda_http_latest_collections"}

\* Python's a == b on two values: values of different types are not equal
Same(a, b) == a.t = b.t /\ a.v = b.v

FeatureHandlers == Handlers \ LatestHandlers

\* The method, the query parameters and the path parameters of a request
MethodOf(ev) ==
    IF "method" \in DOMAIN ev THEN ev["method"]
    ELSE IF Get(ev, "http").t = "dict" THEN Get(ev["http"].v, "method") ELSE NoneV

QueryOf(ev) == IF "params" \in DOMAIN ev THEN ev["params"] ELSE Get(ev, "queryStringParameters")

PathOf(ev) == IF "route_params" \in DOMAIN ev THEN ev["route_params"] ELSE Get(ev, "pathParameters")

\* An Azure request, or an AWS event that lacks no structural field
WellFormed(ev) ==
    "method" \in DOMAIN ev \/ {"http", "requestContext", "pathParameters"} \subseteq DOMAIN ev

\* A handler has run on a well-formed request
Handled == pc = "done" /\ WellFormed(event)

\* The value r is a response envelope of aws_serialise_response
IsEnvelope(r) ==
    ~r.raised /\ r.val.t = "dict" /\ {"statusCode", "headers", "body"} \subseteq DOMAIN r.val.v

\* The status code an outcome r carries: that of an HttpResponse, the
\* statusCode of an AWS envelope, or the 'code' of a result record
CodeOf(r) ==
    IF r.raised THEN NoneV
    ELSE CASE r.val.t = "HttpResponse" -> r.val.v.status_code
           [] r.val.t = "dict" -> IF "statusCode" \in DOMAIN r.val.v THEN r.val.v["statusCode"]
                                  ELSE Get(r.val.v, "code")
           [] OTHER -> NoneV

\* The body an outcome r carries, as a dict
BodyOf(r) ==
    IF r.raised THEN EmptyDict
    ELSE CASE r.val.t = "HttpResponse" -> r.val.v.body.v
           [] r.val.t = "dict" -> IF IsEnvelope(r) THEN r.val.v["body"].v ELSE r.val.v
           [] OTHER -> EmptyDict

CatalystWrapper == Str(<<"Catalyst Wrapper">>)

\* The outcome r is an error answer of the wrapper with the given code
IsWrapperError(r, code) ==
    /\ Same(CodeOf(r), IntV(code))
    /\ Same(Get(BodyOf(r), "errorSource"), CatalystWrapper)

-----------------------------------------------------------------------------
(* C1 *)

\* C1: on every feature handler and every latest-collections handler, a
\* request whose method is not 'GET' is answered with status 405 and
\* errorSource 'Catalyst Wrapper', whatever its query parameters are, and
\* the downstream function is not called.
C1_NonGetAnswered405 ==
    (Handled /\ MethodOf(event) # GET) =>
        /\ IsWrapperError(response, 405)
        /\ call = <<>>

-----------------------------------------------------------------------------
(* C2 *)

\* C2: when the downstream function raises inside a feature handler, the
\* handler returns a response with code 500, errorSource 'Catalyst Wrapper'
\* and the exception's text as description; it neither raises nor returns
\* nothing.
C2_DownstreamExceptionAnswered500 ==
    (Handled /\ handler \in FeatureHandlers /\ downstream.raised) =>
        /\ ~response.raised
        /\ response.val.t # "none"
        /\ IsWrapperError(response, 500)
        /\ Same(Get(BodyOf(response), "description"), Str(<<downstream.exc>>))

-----------------------------------------------------------------------------
(* C3 *)

\* C3: for every AWS event, well-formed or not, and every outcome of the
\* pipeline, aws_process_request returns an envelope with statusCode,
\* headers and body; no exception leaves it.
C3_AwsAlwaysReturnsEnvelope ==
    (pc = "done" /\ handler \in AwsHandlers) => IsEnvelope(response)

-----------------------------------------------------------------------------
(* C4 *)

\* The step in which the routed handler runs
Runs == pc = "ready" /\ pc' = "done"

\* The downstream function was called and returned
DownstreamReturned == call # <<>> /\ ~downstream.raised

\* The query keys that are neither a data key nor an attribute name of a
\* field of schema c
UnknownKeys(c, params) == DOMAIN params \ (DataKeys(c) \cup Range(FieldNames(c)))

\* The query parameters params pass the validation of schema c
Accepts(c, params) ==
    /\ ~SplitCollection(DictV(params), IsMultiCollection(c)).raised
    /\ ~LoadParams(c, SplitCollection(DictV(params), IsMultiCollection(c)).val).raised

\* The keyword argument k of the first downstream call of calls
Kwarg(calls, k) == Get(calls[1].kwargs, k)

\* C4: on every feature handler, a GET request whose declared parameters
\* are valid is not rejected for carrying keys that are not declared fields
\* of the route's schema: the downstream function is called, and each such
\* key is in the query_params it is given, with the value of the request.
C4_UnknownKeysForwarded ==
    [][(/\ Runs
        /\ handler \in FeatureHandlers
        /\ WellFormed(event)
        /\ MethodOf(event) = GET
        /\ Accepts(schema_class,
                   Without(QueryOf(event).v, UnknownKeys(schema_class, QueryOf(event).v))))
       => /\ call' # <<>>
          /\ Kwarg(call', "query_params").t = "dict"
          /\ \A k \in UnknownKeys(schema_class, QueryOf(event).v) :
                /\ k \in DOMAIN Kwarg(call', "query_params").v
                /\ Same(Kwarg(call', "query_params").v[k], QueryOf(event).v[k])]_vars

\* A handler of each pipeline has forwarded the undeclared key 'filter' of
\* a request that also carries a declared parameter
C4_Witness ==
    /\ Handled
    /\ handler \in FeatureHandlers
    /\ call # <<>>
    /\ "filter" \in DOMAIN QueryOf(event).v
    /\ "use-latest-collection" \in DOMAIN QueryOf(event).v
    /\ DOMAIN Kwarg(call, "query_params").v = {"filter"}
    /\ Same(Kwarg(call, "query_params").v["filter"], Str(<<"x", "=", "1">>))
    /\ Same(Kwarg(call, "use_latest_collection"), BoolV(TRUE))

-----------------------------------------------------------------------------
(* C5 *)

\* The request's raw 'collection' query value
RawCollection(ev) == Get(QueryOf(ev).v, "collection")

\* C5: on every multi-collection schema, a GET request with a non-empty
\* 'collection' string, whose other parameters are valid, is validated and
\* the downstream function is called with the 'collection' argument a list
\* of the comma-separated identifiers of that string, in their order: no
\* element holds a comma, and the elements joined by commas are the string.
C5_CollectionSplitInOrder ==
    [][(/\ Runs
        /\ handler \in FeatureHandlers
        /\ WellFormed(event)
        /\ MethodOf(event) = GET
        /\ IsMultiCollection(schema_class)
        /\ RawCollection(event).t = "str"
        /\ RawCollection(event).v # <<>>
        /\ Accepts(schema_class, Put(QueryOf(event).v, "collection", Str(<<"x">>))))
       => /\ call' # <<>>
          /\ Kwarg(call', "collection").t = "list"
          /\ \A i \in 1..Len(Kwarg(call', "collection").v) :
                "," \notin Range(Kwarg(call', "collection").v[i])
          /\ Flatten(Join(Kwarg(call', "collection").v, <<",">>)) = RawCollection(event).v
          /\ "collection" \notin DOMAIN Kwarg(call', "query_params").v]_vars

\* A multi-collection handler was given collection=a,b,c on an Azure
\* request and has called the downstream function with ['a', 'b', 'c']
C5_Witness ==
    /\ Handled
    /\ handler \in {"http_features", "Azure_http_features"}
    /\ IsMultiCollection(schema_class)
    /\ Same(RawCollection(event), Str(<<"a", ",", "b", ",", "c">>))
    /\ call # <<>>
    /\ Same(Kwarg(call, "collection"), ListV(<<<<"a">>, <<"b">>, <<"c">>>>))

-----------------------------------------------------------------------------
(* C6 *)

\* C6: on every single-collection schema, the 'collection' argument of the
\* downstream call is the 'collection' path parameter, whatever the query
\* parameters are; a 'collection' query parameter is not used for it.
C6_CollectionFromPath ==
    (Handled /\ handler \in FeatureHandlers /\ ~IsMultiCollection(schema_class) /\ call # <<>>)
        => /\ "collection" \in DOMAIN call[1].kwargs
           /\ Same(Kwarg(call, "collection"), Get(PathOf(event).v, "collection"))
           /\ ~Same(Kwarg(call, "collection"), RawCollection(event))

\* A single-collection handler was given a 'collection' query parameter and
\* has called the downstream function with the path's collection
C6_Witness ==
    /\ Handled
    /\ handler \in FeatureHandlers
    /\ ~IsMultiCollection(schema_class)
    /\ Same(RawCollection(event), Str(<<"a">>))
    /\ call # <<>>
    /\ Same(Kwarg(call, "collection"), Str(<<"bld-fts-building-4">>))
    /\ Same(Get(Kwarg(call, "query_params").v, "collection"), Str(<<"a">>))

-----------------------------------------------------------------------------
(* C7 *)

\* The handlers of the latest-collections endpoint without a path parameter
\* of its own route
LatestCollectionsHandlers ==
    {"lambda_http_latest_collections", "http_latest_collections",
     "Azure_http_latest_collections"}

\* The response constructor gave the rejection of the parameter pre-check
RejectedByPreCheck ==
    /\ Same(CodeOf(constructed), IntV(400))
    /\ Same(Get(BodyOf(constructed), "description"), Str(OnlyRecentUpdateDays))

\* C7: the latest-collections endpoint takes a GET request with no query
\* parameter, or with the single parameter 'recent-update-days', whose
\* value '28' reaches the downstream function as the integer 28; every
\* other set of query keys is rejected with code 400 and the description
\* "The only supported query parameter is 'recent-update-days'." without a
\* downstream call; a single 'recent-update-days' is never rejected so,
\* whatever its value.
C7_OnlyRecentUpdateDaysAccepted ==
    (Handled /\ handler \in LatestCollectionsHandlers /\ MethodOf(event) = GET)
        => /\ DOMAIN QueryOf(event).v \notin {{}, {"recent-update-days"}}
                => (RejectedByPreCheck /\ call = <<>>)
           /\ DOMAIN QueryOf(event).v = {"recent-update-days"} => ~RejectedByPreCheck
           /\ DOMAIN QueryOf(event).v = {} => (call # <<>> /\ call[1].kwargs = EmptyDict)
           /\ (/\ DOMAIN QueryOf(event).v = {"recent-update-days"}
               /\ Same(QueryOf(event).v["recent-update-days"], Str(<<"2", "8">>)))
                => (call # <<>> /\ Same(Kwarg(call, "recent_update_days"), IntV(28)))

-----------------------------------------------------------------------------
(* C8 *)

\* The classes schema class c inherits from, itself included
RECURSIVE AncestorsOf(_)
AncestorsOf(c) == {c} \cup UNION {AncestorsOf(Bases(c)[i]) : i \in 1..Len(Bases(c))}

\* The downstream function returned an error result whose description is
\* text followed by the '{attr}' placeholder
ReturnedAttrError ==
    /\ DownstreamReturned
    /\ Truthy(Get(downstream.val.v, "errorSource"))
    /\ Get(downstream.val.v, "description").t = "str"
    /\ Len(Get(downstream.val.v, "description").v) = 2
    /\ Get(downstream.val.v, "description").v[2] = "{attr}"

\* C8: when the downstream function returns an error result whose
\* description ends with '{attr}', the final description of a
\* LimitGeomSchema handler has 'wkt, use-latest-collection,
\* hierarchical-output' in its place, and on no schema with the Limit
\* fragment does the final description name the Limit field.
C8_AttrListExcludesLimit ==
    (Handled /\ handler \in FeatureHandlers /\ ReturnedAttrError)
        => /\ schema_class = "LimitGeomSchema"
                => Same(Get(BodyOf(constructed), "description"),
                        Str(<<Get(downstream.val.v, "description").v[1],
                              "wkt", ", ", "use-latest-collection", ", ", "hierarchical-output">>))
           /\ "LimitSchema" \in AncestorsOf(schema_class)
                => /\ Get(BodyOf(constructed), "description").t = "str"
                   /\ "request-limit" \notin Range(Get(BodyOf(constructed), "description").v)
                   /\ "request_limit" \notin Range(Get(BodyOf(constructed), "description").v)

-----------------------------------------------------------------------------
(* C9 *)

\* The fields declared by the classes schema class c is composed from
FragmentFields(c) == UNION {Range(OwnFields(a)) : a \in AncestorsOf(c)}

CollectionSchemas == {"ColSchema", "LimitColSchema", "GeomColSchema", "LimitGeomColSchema"}

\* Schema class c has a required field 'collection'
RequiresCollection(c) ==
    \E i \in 1..Len(Fields[c]) :
        /\ Fields[c][i].attr = "collection"
        /\ Fields[c][i].data_key = "collection"
        /\ Fields[c][i].required

\* The declared fields of schema class c are those of its fragments, once
\* each, with their required flags; it has 'collection', required, exactly
\* when it is one of the four Col schemas and is handled as multi-collection
ComposedOfFragments(c) ==
    /\ Range(Fields[c]) = FragmentFields(c)
    /\ \A i, j \in 1..Len(Fields[c]) :
          i # j => /\ Fields[c][i].attr # Fields[c][j].attr
                   /\ Fields[c][i].data_key # Fields[c][j].data_key
    /\ \A f \in FragmentFields(c) :
          f.required => \E i \in 1..Len(Fields[c]) :
                            Fields[c][i].attr = f.attr /\ Fields[c][i].required
    /\ RequiresCollection(c) <=> c \in CollectionSchemas
    /\ "collection" \in DataKeys(c) <=> c \in CollectionSchemas
    /\ IsMultiCollection(c) <=> c \in CollectionSchemas

\* C9: the declared fields of each of the eight feature schemas are the
\* fields of the classes it is composed from, each attribute name and each
\* data key once, a field required in a fragment being required in the
\* schema; 'collection' is declared, and required, exactly in ColSchema,
\* LimitColSchema, GeomColSchema and LimitGeomColSchema, which are exactly
\* the schemas handled as multi-collection.
C9_FieldsAreUnionOfFragments ==
    handler \in FeatureHandlers =>
        (schema_class \in FeatureSchemas /\ ComposedOfFragments(schema_class))

\* A LimitColSchema handler has validated a request with a field of the
\* Limit fragment and the field of the Col fragment, and passed both on
C9_Witness ==
    /\ Handled
    /\ schema_class = "LimitColSchema"
    /\ call # <<>>
    /\ Same(Kwarg(call, "request_limit"), IntV(28))
    /\ Kwarg(call, "collection").t = "list"

-----------------------------------------------------------------------------
(* C10 *)

\* C10: for every result the downstream function returns to a feature
\* handler (on AWS: every result that carries 'headers'), the status code
\* of the handler's response is the result's 'code' when it has one and 200
\* otherwise.
C10_StatusMirrorsCode ==
    (/\ Handled
     /\ handler \in FeatureHandlers
     /\ DownstreamReturned
     /\ ~Substitute(schema_class, downstream.val.v).raised
     /\ handler \in AwsHandlers => "headers" \in DOMAIN downstream.val.v)
        => Same(CodeOf(response),
                IF "code" \in DOMAIN downstream.val.v
                THEN downstream.val.v["code"] ELSE IntV(200))

-----------------------------------------------------------------------------
(* C11 *)

\* C11: when the downstream function returns to a feature handler a result
\* that carries a top-level 'telemetryData' entry, the body answered to the
\* caller does not carry it, on each pipeline and whether LOG_REQUEST_DETAILS
\* is set or not.
C11_TelemetryDetached ==
    (/\ Handled
     /\ handler \in FeatureHandlers
     /\ DownstreamReturned
     /\ "telemetryData" \in DOMAIN downstream.val.v)
        => /\ "telemetryData" \notin DOMAIN BodyOf(constructed)
           /\ "telemetryData" \notin DOMAIN BodyOf(response)

-----------------------------------------------------------------------------
(* C12 *)

\* The three entries of an error body
ErrorEntries == {"code", "description", "errorSource"}

\* C12: every error response a handler returns, built by the wrapper or
\* passed through from a downstream error result that has 'code',
\* 'description' and 'errorSource', has all three in its body, also after
\* its serialisation into the envelope of the platform.
C12_ErrorBodyComplete ==
    (/\ Handled
     /\ ~response.raised
     /\ response.val.t # "none"
     /\ Truthy(Get(BodyOf(constructed), "errorSource"))
     /\ DownstreamReturned => ErrorEntries \subseteq DOMAIN downstream.val.v)
        => /\ ErrorEntries \subseteq DOMAIN BodyOf(constructed)
           /\ ErrorEntries \subseteq DOMAIN BodyOf(response)

-----------------------------------------------------------------------------
(* C13 *)

\* The request lacks the 'collection' a multi-collection schema c requires,
\* or has it as the empty string, or has a 'request-limit' that schema c
\* declares and that is no number
FailsValidation(c, params) ==
    \/ IsMultiCollection(c) /\ "collection" \notin DOMAIN params
    \/ IsMultiCollection(c) /\ Same(Get(params, "collection"), Str(<<>>))
    \/ /\ "request-limit" \in DataKeys(c) \cap DOMAIN params
       /\ params["request-limit"].t = "str"
       /\ ~IntParses(params["request-limit"].v)

\* C13: on every feature handler, a GET request that lacks the required
\* 'collection' of a multi-collection schema (a missing key or an empty
\* string), or whose 'request-limit' is not a number, makes the response
\* constructor give an error with code 400 and errorSource 'Catalyst
\* Wrapper', and the downstream function is not called.
C13_ValidationFailureIs400 ==
    (/\ Handled
     /\ handler \in FeatureHandlers
     /\ MethodOf(event) = GET
     /\ FailsValidation(schema_class, QueryOf(event).v))
        => /\ IsWrapperError(constructed, 400)
           /\ call = <<>>

\* A LimitColSchema handler was given request-limit=abc and no 'collection'
\* and its response constructor gave the 400 error without a downstream call
C13_Witness ==
    /\ Handled
    /\ handler \in FeatureHandlers
    /\ schema_class = "LimitColSchema"
    /\ MethodOf(event) = GET
    /\ DOMAIN QueryOf(event).v = {"request-limit"}
    /\ Same(QueryOf(event).v["request-limit"], Str(<<"a", "b", "c">>))
    /\ IsWrapperError(constructed, 400)
    /\ Get(BodyOf(constructed), "description").t = "str"
    /\ call = <<>>

-----------------------------------------------------------------------------
(* C14 *)

\* The data keys of the Boolean fields of the feature schemas
BooleanKeys == {"use-latest-collection", "hierarchical-output"}

\* In the step of a feature handler on a GET request, each Boolean
\* parameter the schema declares is coerced by the two sets of strings: a
\* string of neither set is rejected with code 400 without a downstream
\* call, and when the other parameters are valid, a string of truthy reaches
\* the downstream function as True and a string of falsy as False
BooleanCoercedBy(truthy, falsy) ==
    (/\ Runs
     /\ handler \in FeatureHandlers
     /\ WellFormed(event)
     /\ MethodOf(event) = GET)
        => \A k \in BooleanKeys \cap DataKeys(schema_class) \cap DOMAIN QueryOf(event).v :
              /\ QueryOf(event).v[k].v \notin truthy \cup falsy
                    => (IsWrapperError(constructed', 400) /\ call' = <<>>)
              /\ (/\ QueryOf(event).v[k].v \in truthy \cup falsy
                  /\ Accepts(schema_class, Without(QueryOf(event).v, {k})))
                    => /\ call' # <<>>
                       /\ \E i \in 1..Len(Fields[schema_class]) :
                             /\ Fields[schema_class][i].data_key = k
                             /\ Same(Kwarg(call', Fields[schema_class][i].attr),
                                     BoolV(QueryOf(event).v[k].v \in truthy))

\* C14 as stated: a declared Boolean parameter is coerced by a
\* case-sensitive match of the two literals: 'true' gives True, 'false'
\* gives False, and every other string ('True', '1', 'yes') is rejected
\* with code 400.
C14_BooleanLiteralsOnly ==
    [][BooleanCoercedBy({<<"t", "r", "u", "e">>}, {<<"f", "a", "l", "s", "e">>})]_vars

\* C14 amended: a declared Boolean parameter is coerced by the truthy and
\* falsy sets of the Boolean field: 'true', 'True', '1', 'yes' and the
\* other truthy strings give True, 'false', 'False', '0', 'no' and the other
\* falsy strings give False, and every string of neither set ('maybe') is
\* rejected with code 400.
C14_BooleanByTruthyAndFalsySets ==
    [][BooleanCoercedBy(BooleanTruthy, BooleanFalsy)]_vars

\* A feature handler was given use-latest-collection=True and has called
\* the downstream function with use_latest_collection True
C14_Witness ==
    /\ Handled
    /\ handler \in FeatureHandlers
    /\ Same(Get(QueryOf(event).v, "use-latest-collection"), Str(<<"T", "r", "u", "e">>))
    /\ call # <<>>
    /\ Same(Kwarg(call, "use_latest_collection"), BoolV(TRUE))

-----------------------------------------------------------------------------
(* C15 *)

\* The value b of an event entry is the value a it had: the same type and,
\* for a mapping, the same keys with equal values
Unaltered(a, b) ==
    /\ a.t = b.t
    /\ IF a.t = "dict"
       THEN DOMAIN a.v = DOMAIN b.v /\ \A k \in DOMAIN a.v : Same(a.v[k], b.v[k])
       ELSE a.v = b.v

\* The response constructor an AWS handler passes to aws_process_request
ConstructorOf(h) ==
    IF h = "lambda_handler" THEN "construct_features_response"
    ELSE "construct_collections_response"

\* C15: aws_process_request leaves the event as it was given: after the run
\* of an AWS handler the event's 'queryStringParameters', 'pathParameters'
\* and 'headers' are what they were before it, also on the multi-collection
\* schemas, and processing the event once more, with the same downstream
\* outcome, gives the same response.
C15_EventNotMutated ==
    [][(Runs /\ handler \in AwsHandlers)
       => /\ \A k \in {"queryStringParameters", "pathParameters", "headers"} \cap DOMAIN event :
                k \in DOMAIN event' /\ Unaltered(event[k], event'[k])
          /\ aws_process_request(event', ConstructorOf(handler), schema_class,
                                 downstream').result.raised = response'.raised
          /\ aws_process_request(event', ConstructorOf(handler), schema_class,
                                 downstream').result.exc = response'.exc
          /\ Same(aws_process_request(event', ConstructorOf(handler), schema_class,
                                      downstream').result.val, response'.val)]_vars

-----------------------------------------------------------------------------
(* C16 *)

\* The request's 'collection' path parameter, None when the request has
\* none or has no path parameters at all
PathCollectionOf(ev) ==
    IF PathOf(ev).t = "dict" THEN Get(PathOf(ev).v, "collection") ELSE NoneV

\* C16: a latest-collections handler given a GET request that passes the
\* validation (no query parameter, or a numeric 'recent-update-days') calls
\* exactly one downstream function: get_specific_latest_collections with
\* the one-element list of the path's 'collection' when the request has
\* that path parameter, get_latest_collection_versions when it has not,
\* also when the AWS event has no 'pathParameters' entry at all.
C16_ExactlyOneLatestFunction ==
    (/\ pc = "done"
     /\ handler \in LatestHandlers
     /\ "method" \in DOMAIN event \/ {"http", "requestContext"} \subseteq DOMAIN event
     /\ MethodOf(event) = GET
     /\ \/ DOMAIN QueryOf(event).v = {}
        \/ /\ DOMAIN QueryOf(event).v = {"recent-update-days"}
           /\ IntParses(QueryOf(event).v["recent-update-days"].v))
        => /\ Len(call) = 1
           /\ IF PathCollectionOf(event).t = "str"
              THEN /\ call[1].func = "get_specific_latest_collections"
                   /\ Len(call[1].args) = 1
                   /\ Same(call[1].args[1], ListV(<<PathCollectionOf(event).v>>))
              ELSE /\ call[1].func = "get_latest_collection_versions"
                   /\ call[1].args = <<>>

-----------------------------------------------------------------------------
(* C17 *)

\* The mapping the validation of schema c gives for the request ev
Validated(c, ev) ==
    LoadParams(c, SplitCollection(QueryOf(ev), IsMultiCollection(c)).val).val.v

\* The named arguments of the first downstream call of calls, other than
\* query_params and headers
Control(calls) == Without(calls[1].kwargs, {"query_params", "headers"})

\* In the step of a feature handler that calls the downstream function,
\* query_params and the named arguments partition the validated mapping:
\* they share no key outside shared, query_params holds no field name of the
\* schema, every validated entry is in exactly one of the two with its
\* validated value (a key of shared may be in both), and the two hold
\* nothing else but the path's 'collection' on a single-collection schema
PartitionedBut(shared) ==
    (Runs /\ handler \in FeatureHandlers /\ call' # <<>>)
        => /\ Kwarg(call', "query_params").t = "dict"
           /\ DOMAIN Kwarg(call', "query_params").v \cap DOMAIN Control(call') \subseteq shared
           /\ DOMAIN Kwarg(call', "query_params").v \cap Range(FieldNames(schema_class)) = {}
           /\ \A k \in DOMAIN Validated(schema_class, event) :
                 \/ /\ k \in DOMAIN Kwarg(call', "query_params").v
                    /\ Same(Kwarg(call', "query_params").v[k], Validated(schema_class, event)[k])
                    /\ k \in DOMAIN Control(call') => k \in shared
                 \/ /\ k \notin DOMAIN Kwarg(call', "query_params").v
                    /\ k \in DOMAIN Control(call')
                    /\ Same(Control(call')[k], Validated(schema_class, event)[k])
           /\ DOMAIN Kwarg(call', "query_params").v \cup DOMAIN Control(call')
                 = DOMAIN Validated(schema_class, event)
                   \cup (IF IsMultiCollection(schema_class) THEN {} ELSE {"collection"})
           /\ ~IsMultiCollection(schema_class)
                 => Same(Control(call')["collection"], PathCollectionOf(event))

\* C17 as stated: at the downstream call of a feature handler, query_params
\* and the named arguments partition the validated parameters: their key
\* sets are disjoint, no declared field name remains in query_params, and
\* every validated entry is in exactly one of the two with its validated
\* value, the named arguments holding the path's 'collection' in addition on
\* a single-collection schema.
C17_ParamsPartitioned == [][PartitionedBut({})]_vars

\* C17 amended: the same, but on a single-collection schema the key sets
\* may share 'collection': a 'collection' query parameter, which the schema
\* does not declare, stays in query_params while the named argument
\* 'collection' is the path's.
C17_ParamsPartitionedButPathCollection ==
    [][PartitionedBut(IF IsMultiCollection(schema_class) THEN {} ELSE {"collection"})]_vars

\* A single-collection handler with the Limit field was given collection=a
\* and request-limit=28: request_limit and the path's collection are named
\* arguments, and query_params holds the query's collection
C17_Witness ==
    /\ Handled
    /\ handler \in FeatureHandlers
    /\ ~IsMultiCollection(schema_class)
    /\ DOMAIN QueryOf(event).v = {"collection", "request-limit"}
    /\ call # <<>>
    /\ DOMAIN Control(call) = {"collection", "request_limit"}
    /\ Same(Control(call)["request_limit"], IntV(28))
    /\ Same(Control(call)["collection"], Str(<<"bld-fts-building-4">>))
    /\ DOMAIN Kwarg(call, "query_params").v = {"collection"}
    /\ Same(Kwarg(call, "query_params").v["collection"], Str(<<"a">>))

-----------------------------------------------------------------------------
(* C18 *)

\* The type of the values a field of the given type deserialises to
TypeTag(type) ==
    CASE type = "String" -> "str"
      [] type = "Boolean" -> "bool"
      [] type = "Integer" -> "int"
      [] type = "List" -> "list"

\* C18: every named argument a feature handler passes to the downstream
\* function under the name of a declared field holds a value of the field's
\* type: an int for request_limit, a bool for the two flags, a str for wkt,
\* a list for the collection of a multi-collection schema; no raw query
\* string takes its place, also when the query names the field by its
\* attribute name ('request_limit=abc').
C18_ControlParamsAreTyped ==
    (Handled /\ handler \in FeatureHandlers /\ call # <<>>)
        => \A i \in 1..Len(Fields[schema_class]) :
              Fields[schema_class][i].attr \in DOMAIN call[1].kwargs
                => Kwarg(call, Fields[schema_class][i].attr).t
                       = TypeTag(Fields[schema_class][i].type)

-----------------------------------------------------------------------------
(* C19 *)

\* The entry k of the result the downstream function returned
Returned(k) == Get(downstream.val.v, k)

\* C19: the post-processing of a feature handler changes a description only
\* by replacing '{attr}': a downstream result without errorSource, and an
\* error result whose description has no '{attr}' (also one with other
\* braces or placeholders), come out of the response constructor with the
\* same description, code and errorSource, and never as another error or as
\* an exception.
C19_OnlyAttrSubstituted ==
    (/\ Handled
     /\ handler \in FeatureHandlers
     /\ DownstreamReturned
     /\ \/ ~Truthy(Returned("errorSource"))
        \/ Returned("description").t = "str" /\ "{attr}" \notin Range(Returned("description").v))
        => /\ ~constructed.raised
           /\ constructed.val.t # "none"
           /\ \A k \in ErrorEntries \cap DOMAIN downstream.val.v :
                 /\ k \in DOMAIN BodyOf(constructed)
                 /\ Same(BodyOf(constructed)[k], Returned(k))
           /\ Same(Get(BodyOf(constructed), "errorSource"), Returned("errorSource"))

-----------------------------------------------------------------------------
(* C20 *)

\* The query parameters that carry the caller's credential
CredentialKeys == {"key", "access_token"}

\* C20: the custom_dimensions a latest-collections handler passes to
\* track_event never hold the caller's credential: no entry has the value of
\* the request's 'key' or 'access_token' query parameter, and none is an
\* entry of such a parameter, so that the dimensions do not depend on the
\* credential.
C20_NoCredentialInTelemetry ==
    (Handled /\ handler \in LatestHandlers)
        => \A i \in 1..Len(telemetry) :
              \A c \in CredentialKeys \cap DOMAIN QueryOf(event).v :
                 /\ "query_params." \o c \notin DOMAIN telemetry[i].custom_dimensions
                 /\ \A k \in DOMAIN telemetry[i].custom_dimensions :
                       ~Same(telemetry[i].custom_dimensions[k], QueryOf(event).v[c])

====
